---- MODULE Spec2Model ----
(***************************************************************************)
(* A model of angular-rest (src/index.ts): the decorators that record a    *)
(* REST method's metadata on the client prototype and on the method's      *)
(* property descriptor, and the function methodBuilder installs as the     *)
(* method, which compiles a request from the metadata and the call's       *)
(* arguments, runs requestInterceptor, hands the request to Http.request,  *)
(* maps the response through res.json() when @Produces(JSON) was given,    *)
(* and runs responseInterceptor.                                           *)
(*                                                                         *)
(* JavaScript strings are sequences of one-character strings, so that      *)
(* String.prototype.replace, encodeURIComponent and JSON.stringify are     *)
(* computed character by character.  A JavaScript value is a record        *)
(* [t |-> its type, s |-> its text].  The @angular/http classes Headers    *)
(* and URLSearchParams are insertion-ordered maps: sequences of entries.   *)
(***************************************************************************)
EXTENDS Integers, Sequences, FiniteSets

\* ------------------------------------------------------------------ bounds

\* The longest argument list of a call.
MaxArgs == 2

\* The most parameter bindings (over all four roles) declared for the method.
MaxBindings == 2

\* --------------------------------------------------------- JavaScript values

Undefined == [t |-> "undefined", s |-> <<>>]

Null == [t |-> "null", s |-> <<>>]

Str(chars) == [t |-> "string", s |-> chars]

Num(chars) == [t |-> "number", s |-> chars]

Bool(chars) == [t |-> "boolean", s |-> chars]

\* A plain object, given by its JSON text.
Obj(json) == [t |-> "object", s |-> json]

\* An object that refers to itself: JSON.stringify throws a TypeError on it.
Circular == [t |-> "circular", s |-> <<>>]

True == Bool(<<"t", "r", "u", "e">>)

False == Bool(<<"f", "a", "l", "s", "e">>)

\* ToBoolean: what `filter(p => args[p.parameterIndex])` keeps.
Truthy(v) ==
  CASE v.t = "undefined" -> FALSE
    [] v.t = "null" -> FALSE
    [] v.t = "boolean" -> v = True
    [] v.t = "number" -> v.s \notin {<<"0">>, <<"N", "a", "N">>}
    [] v.t = "string" -> v.s # <<>>
    [] OTHER -> TRUE

\* `value instanceof Object`
InstanceOfObject(v) == v.t \in {"object", "circular"}

\* ToString: what string concatenation, replace and encodeURIComponent see.
ToString(v) ==
  CASE v.t = "undefined" -> <<"u", "n", "d", "e", "f", "i", "n", "e", "d">>
    [] v.t = "null" -> <<"n", "u", "l", "l">>
    [] v.t \in {"boolean", "number", "string"} -> v.s
    [] OTHER -> <<"[", "o", "b", "j", "e", "c", "t", " ",
                  "O", "b", "j", "e", "c", "t", "]">>

RECURSIVE Flatten(_)
Flatten(ss) == IF ss = <<>> THEN <<>> ELSE Head(ss) \o Flatten(Tail(ss))

\* JSON's escape of one character of a string.
JSONEscapeChar(c) ==
  IF c \in {"\"", "\\"} THEN <<"\\", c>> ELSE <<c>>

\* A JSON.stringify that rejected a missing value.
JSONStringifyOfUndefinedThrows == [threw |-> TRUE, v |-> Undefined]

\* JSON.stringify(undefined) is undefined, not a string.
JSONStringifyOfUndefined == [threw |-> FALSE, v |-> Undefined]

\* JSON.stringify(v): the value returned, or a throw.
JSONStringify(v) ==
  CASE v.t = "undefined" -> JSONStringifyOfUndefined
    [] v.t = "null" -> [threw |-> FALSE, v |-> Str(<<"n", "u", "l", "l">>)]
    [] v.t \in {"boolean", "number"} -> [threw |-> FALSE, v |-> Str(v.s)]
    [] v.t = "string" ->
         [threw |-> FALSE,
          v |-> Str(<<"\"">> \o Flatten([i \in 1..Len(v.s) |-> JSONEscapeChar(v.s[i])])
                    \o <<"\"">>)]
    [] v.t = "object" -> [threw |-> FALSE, v |-> Str(v.s)]
    [] OTHER -> [threw |-> TRUE, v |-> Undefined]

\* The characters encodeURIComponent leaves alone, as far as the model's
\* strings use them; every other character is percent-encoded.
Unreserved ==
  {"a", "b", "c", "d", "e", "f", "i", "j", "l", "n", "o", "q", "r", "s", "t", "u", "x",
   "A", "B", "O", "X", "0", "1", "2", "3", "4", "9", "-", "_", ".", "!", "~", "*", "'",
   "(", ")"}

PercentCode(c) ==
  CASE c = " " -> <<"%", "2", "0">>
    [] c = "\"" -> <<"%", "2", "2">>
    [] c = "$" -> <<"%", "2", "4">>
    [] c = "&" -> <<"%", "2", "6">>
    [] c = "/" -> <<"%", "2", "F">>
    [] c = ":" -> <<"%", "3", "A">>
    [] c = "[" -> <<"%", "5", "B">>
    [] c = "\\" -> <<"%", "5", "C">>
    [] c = "]" -> <<"%", "5", "D">>
    [] c = "{" -> <<"%", "7", "B">>
    [] c = "}" -> <<"%", "7", "D">>
    [] OTHER -> <<"%", "?", "?">>

EncodeURIComponent(chars) ==
  Flatten([i \in 1..Len(chars) |->
             IF chars[i] \in Unreserved THEN <<chars[i]>> ELSE PercentCode(chars[i])])

\* String.prototype.indexOf, 1-based; 0 when pat does not occur.
IndexOf(str, pat) ==
  LET hits == {i \in 1..(Len(str) - Len(pat) + 1) : SubSeq(str, i, i + Len(pat) - 1) = pat}
  IN  IF hits = {} THEN 0 ELSE CHOOSE i \in hits : \A j \in hits : i <= j

\* GetSubstitution of String.prototype.replace for a string pattern (no capture
\* groups): $$ is a dollar, $& the match, $' the text after it.  (The pattern for
\* the text before the match needs a backquote, which no string of the model holds.)
RECURSIVE GetSubstitution(_, _, _, _)
GetSubstitution(matched, before, after, repl) ==
  IF repl = <<>> THEN <<>>
  ELSE IF Head(repl) = "$" /\ Len(repl) >= 2 /\ repl[2] \in {"$", "&", "'"}
       THEN (CASE repl[2] = "$" -> <<"$">>
               [] repl[2] = "&" -> matched
               [] OTHER -> after)
            \o GetSubstitution(matched, before, after, SubSeq(repl, 3, Len(repl)))
       ELSE <<Head(repl)>> \o GetSubstitution(matched, before, after, Tail(repl))

\* str.replace(pat, repl) with a string pattern: the first occurrence only.
Replace(str, pat, repl) ==
  LET i == IndexOf(str, pat)
  IN  IF i = 0 THEN str
      ELSE LET before == SubSeq(str, 1, i - 1)
               after == SubSeq(str, i + Len(pat), Len(str))
           IN  before \o GetSubstitution(pat, before, after, repl) \o after

\* String.prototype.toLowerCase on the header names the model uses.
LowerChar(c) ==
  CASE c = "A" -> "a" [] c = "B" -> "b" [] c = "X" -> "x" [] OTHER -> c

ToLowerCase(chars) == [i \in 1..Len(chars) |-> LowerChar(chars[i])]

\* ------------------------------------------- @angular/http Headers, URLSearchParams
\* As in @angular/http: a Headers object keeps a list of values per lower-cased
\* name, append adds to the list and only set replaces it; URLSearchParams.set
\* keeps one value per key.

\* An object or array that may be missing (null or undefined in the source).
Absent == [absent |-> TRUE, list |-> <<>>]

Present(list) == [absent |-> FALSE, list |-> list]

\* Headers.delete(name): names are compared in lower case.
HeadersDelete(h, name) ==
  SelectSeq(h, LAMBDA e : e.name # ToLowerCase(name))

\* Headers.append(name, value): one more value for the name, after those it has.
HeadersAppend(h, name, value) ==
  LET n == ToLowerCase(name)
  IN  IF \E i \in 1..Len(h) : h[i].name = n
      THEN [i \in 1..Len(h) |->
              IF h[i].name = n THEN [h[i] EXCEPT !.values = Append(@, value)] ELSE h[i]]
      ELSE Append(h, [name |-> n, values |-> <<value>>])

\* new Headers(obj): empty for null; for an object, each own key in turn is
\* deleted and then appended.
RECURSIVE HeadersFrom(_, _)
HeadersFrom(h, entries) ==
  IF entries = <<>> THEN h
  ELSE HeadersFrom(HeadersAppend(HeadersDelete(h, Head(entries).name),
                                 Head(entries).name, Head(entries).value),
                   Tail(entries))

NewHeaders(obj) == IF obj.absent THEN <<>> ELSE HeadersFrom(<<>>, obj.list)

\* URLSearchParams.set(param, val): the one value of param.
SearchSet(sp, param, val) ==
  IF \E i \in 1..Len(sp) : sp[i].param = param
  THEN [i \in 1..Len(sp) |-> IF sp[i].param = param THEN [sp[i] EXCEPT !.val = val] ELSE sp[i]]
  ELSE Append(sp, [param |-> param, val |-> val])

\* ------------------------------------------------- the function methodBuilder installs

\* args[i] for a 0-based i: undefined past the end of the argument list.
ArgAt(args, i) == IF i + 1 <= Len(args) THEN args[i + 1] ELSE Undefined

\* Lines 193-197: the body.
CompileBody(pBody, args) ==
  IF pBody.absent THEN [threw |-> FALSE, v |-> Null]
  ELSE JSONStringify(ArgAt(args, pBody.list[1].parameterIndex))

\* Lines 199-207: one replace per Path binding, each on the result of the last.
RECURSIVE SubstitutePath(_, _, _)
SubstitutePath(resUrl, bindings, args) ==
  IF bindings = <<>> THEN resUrl
  ELSE SubstitutePath(
         Replace(resUrl, <<"{">> \o Head(bindings).key \o <<"}">>,
                 ToString(ArgAt(args, Head(bindings).parameterIndex))),
         Tail(bindings), args)

CompilePath(url, pPath, args) ==
  IF pPath.absent THEN url ELSE SubstitutePath(url, pPath.list, args)

\* Lines 213-222: the bindings with a truthy argument, each set in turn.
RECURSIVE SetQuery(_, _, _)
SetQuery(search, bindings, args) ==
  IF bindings = <<>> THEN [threw |-> FALSE, search |-> search]
  ELSE LET p == Head(bindings)
           value == ArgAt(args, p.parameterIndex)
           json == JSONStringify(value)
           text == IF InstanceOfObject(value) THEN ToString(json.v) ELSE ToString(value)
       IN  IF ~Truthy(value) THEN SetQuery(search, Tail(bindings), args)
           ELSE IF InstanceOfObject(value) /\ json.threw
                THEN [threw |-> TRUE, search |-> search]
                ELSE SetQuery(SearchSet(search, EncodeURIComponent(p.key),
                                        EncodeURIComponent(text)),
                              Tail(bindings), args)

CompileQuery(pQuery, args) ==
  IF pQuery.absent THEN [threw |-> FALSE, search |-> <<>>]
  ELSE SetQuery(<<>>, pQuery.list, args)

\* Lines 229-233: the method's own headers, appended.
RECURSIVE AppendStatic(_, _)
AppendStatic(h, entries) ==
  IF entries = <<>> THEN h
  ELSE AppendStatic(HeadersAppend(h, Head(entries).name, Head(entries).value),
                    Tail(entries))

\* Lines 235-241: the Header bindings, appended.
RECURSIVE AppendBound(_, _, _)
AppendBound(h, bindings, args) ==
  IF bindings = <<>> THEN h
  ELSE AppendBound(HeadersAppend(h, Head(bindings).key,
                                 ArgAt(args, Head(bindings).parameterIndex)),
                   Tail(bindings), args)

CompileHeaders(defaults, static, pHeader, args) ==
  LET h0 == NewHeaders(defaults)
      h1 == IF static.absent THEN h0 ELSE AppendStatic(h0, static.list)
  IN  IF pHeader.absent THEN h1 ELSE AppendBound(h1, pHeader.list, args)

\* Line 246: `this.getBaseUrl() + resUrl`.
ComposeUrl(base, resUrl) == ToString(base) \o resUrl

\* The fields of the RequestOptions of lines 244-250, which new Request(options)
\* wraps for requestInterceptor and Http.request.
NoRequest == [method |-> "", url |-> <<>>, headers |-> <<>>, body |-> Null, search |-> <<>>]

\* Lines 193-250: the request options of a call of the closure `fn` with `args`,
\* or the step that threw.
Compile(fn, static, defaults, base, args) ==
  LET body == CompileBody(fn.pBody, args)
      query == CompileQuery(fn.pQuery, args)
  IN  IF body.threw THEN [threw |-> TRUE, at |-> "body", req |-> NoRequest]
      ELSE IF query.threw THEN [threw |-> TRUE, at |-> "query", req |-> NoRequest]
      ELSE [threw |-> FALSE, at |-> "",
            req |-> [method |-> fn.method,
                     url |-> ComposeUrl(base, CompilePath(fn.url, fn.pPath, args)),
                     headers |-> CompileHeaders(defaults, static, fn.pHeader, args),
                     body |-> body.v,
                     search |-> query.search]]

\* ------------------------------------------------------------ the inputs

\* Largest parameterIndex a parameter decorator is applied with.
MaxIndex == 1

Roles == {"Path", "Query", "Body", "Header"}

\* The keys the parameter decorators are applied with.  Body is
\* paramBuilder('Body')('Body'): its key is always "Body".
Keys(role) ==
  CASE role = "Path" -> {<<"a">>, <<"b">>}
    [] role = "Query" -> {<<"a", " ", "b">>}
    [] role = "Header" -> {<<"A">>}
    [] OTHER -> {<<"B", "o", "d", "y">>}

\* RequestMethod of the exported GET, POST, PUT, DELETE and HEAD.
Verbs == {"Get", "Post"}

\* "/{a}/{b}"
Templates == {<<"/", "{", "a", "}", "/", "{", "b", "}">>}

\* @BaseUrl("h:")
BaseUrls == {Str(<<"h", ":">>)}

\* @DefaultHeaders({A: "1"})
DefaultHeaderDefs == {<<[name |-> <<"A">>, value |-> Str(<<"1">>)]>>}

\* @Headers({A: "2", B: "3"})
HeaderDefs ==
  {<<[name |-> <<"A">>, value |-> Str(<<"2">>)], [name |-> <<"B">>, value |-> Str(<<"3">>)]>>}

\* MediaType has the one member JSON.
MediaTypes == {"JSON"}

\* What a call passes for one argument.
ArgValues ==
  {Null, Str(<<"a", " ", "b">>), Str(<<"{", "b", "}">>),
   Obj(<<"{", "\"", "x", "\"", ":", "1", "}">>), Circular}

ArgLists == UNION {[1..n -> ArgValues] : n \in 0..MaxArgs}

\* ------------------------------------------------------------ the state

VARIABLES
  getBaseUrl,         \* what this.getBaseUrl() returns: null until @BaseUrl
  getDefaultHeaders,  \* what this.getDefaultHeaders() returns: null until @DefaultHeaders
  params,             \* target[`${propertyKey}_${role}_parameters`], per role
  descriptor,         \* the method's property descriptor: headers, isJSON, value
  call                \* the call of the method in progress, if any

vars == <<getBaseUrl, getDefaultHeaders, params, descriptor, call>>

\* The declaration-time state: everything but the call in progress.
declared == <<getBaseUrl, getDefaultHeaders, params, descriptor>>

NoValue ==
  [defined |-> FALSE, method |-> "", url |-> <<>>,
   held |-> [r \in Roles |-> FALSE]]

NoCall ==
  [pc |-> "idle", args |-> <<>>,
   compiled |-> [threw |-> FALSE, at |-> "", req |-> NoRequest],
   req |-> NoRequest, sent |-> <<>>, pipeline |-> <<>>, returned |-> <<>>, log |-> <<>>]

Init ==
  /\ getBaseUrl = Null
  /\ getDefaultHeaders = Absent
  /\ params = [r \in Roles |-> Absent]
  /\ descriptor = [headers |-> Absent, isJSON |-> Undefined, value |-> NoValue]
  /\ call = NoCall

\* JavaScript runs a call of the method to its return before anything else runs.
Idle == call.pc = "idle"

NBindings == Len(params["Path"].list) + Len(params["Query"].list)
             + Len(params["Body"].list) + Len(params["Header"].list)

\* ------------------------------------------------------------ the decorators

\* Lines 89-96.
BaseUrl(url) ==
  /\ Idle
  /\ getBaseUrl' = url
  /\ UNCHANGED <<getDefaultHeaders, params, descriptor, call>>

\* Lines 102-109.
DefaultHeaders(headers) ==
  /\ Idle
  /\ getDefaultHeaders' = Present(headers)
  /\ UNCHANGED <<getBaseUrl, params, descriptor, call>>

\* Lines 111-126: push on the role's array, or start one.
ParamDecorator(role, key, parameterIndex) ==
  /\ Idle
  /\ NBindings < MaxBindings
  /\ LET paramObj == [key |-> key, parameterIndex |-> parameterIndex]
     IN  params' = [params EXCEPT ![role] =
                      IF ~params[role].absent THEN Present(Append(params[role].list, paramObj))
                      ELSE Present(<<paramObj>>)]
  /\ UNCHANGED <<getBaseUrl, getDefaultHeaders, descriptor, call>>

\* Lines 154-159.
Headers(headersDef) ==
  /\ Idle
  /\ descriptor' = [descriptor EXCEPT !.headers = Present(headersDef)]
  /\ UNCHANGED <<getBaseUrl, getDefaultHeaders, params, call>>

\* Lines 166-171.
Produces(producesDef) ==
  /\ Idle
  /\ descriptor' = [descriptor EXCEPT !.isJSON = IF producesDef = "JSON" THEN True ELSE False]
  /\ UNCHANGED <<getBaseUrl, getDefaultHeaders, params, call>>

\* Lines 186-189: the closure holds the role's array if there is one by now,
\* and undefined otherwise; an array it holds is the one later pushes extend.
Held(role) == ~params[role].absent

\* Lines 182-191, 270: @GET(url), @POST(url), ...
MethodDecorator(method, url) ==
  /\ Idle
  /\ descriptor' = [descriptor EXCEPT !.value =
                      [defined |-> TRUE, method |-> method, url |-> url,
                       held |-> [r \in Roles |-> Held(r)]]]
  /\ UNCHANGED <<getBaseUrl, getDefaultHeaders, params, call>>

\* ------------------------------------------------------------ a call

\* pPath, pQuery, pBody and pHeader as the closure sees them at a call.
Closure ==
  LET v == descriptor.value
      p(role) == IF v.held[role] THEN params[role] ELSE Absent
  IN  [method |-> v.method, url |-> v.url, pBody |-> p("Body"), pPath |-> p("Path"),
       pQuery |-> p("Query"), pHeader |-> p("Header")]

CompileNow(args) ==
  Compile(Closure, descriptor.headers, getDefaultHeaders, getBaseUrl, args)

\* A compile step whose error was swallowed.
AfterCompileSwallowed(result) == "compiled"

\* A throw in lines 193-250 leaves the function: nothing after it runs.
AfterCompile(result) == IF result.threw THEN "failed" ELSE "compiled"

\* The substitution assigned to the closure's url itself.
UrlAssigned(url, resUrl) == resUrl

\* Line 200: resUrl is a local copy; the closure's url is not assigned.
UrlAfterCall(url, resUrl) == url

\* Lines 191-252.
StartCall(args) ==
  /\ Idle
  /\ descriptor.value.defined
  /\ LET result == CompileNow(args)
     IN  /\ call' = [NoCall EXCEPT !.pc = AfterCompile(result), !.args = args,
                                   !.compiled = result, !.req = result.req,
                                   !.log = <<"compile">>]
         /\ descriptor' = [descriptor EXCEPT !.value.url =
                             UrlAfterCall(@, CompilePath(@, Closure.pPath, args))]
  /\ UNCHANGED <<getBaseUrl, getDefaultHeaders, params>>

\* What an overriding requestInterceptor may do to the request it is given: the
\* request and its headers are objects built for this call (lines 227, 244, 252).
Mutated(req) ==
  [req EXCEPT !.url = @ \o <<"#">>,
              !.headers = HeadersAppend(@, <<"X">>, Str(<<"9">>)),
              !.body = Str(<<"x">>)]

\* Line 255: the default does nothing; an override may mutate req or throw.
RequestInterceptor(outcome) ==
  /\ call.pc = "compiled"
  /\ call' = [call EXCEPT
                !.pc = IF outcome = "throw" THEN "failed" ELSE "intercepted",
                !.req = IF outcome = "mutate" THEN Mutated(@) ELSE @,
                !.log = Append(@, "requestInterceptor")]
  /\ UNCHANGED declared

\* Line 257.
HttpRequest ==
  /\ call.pc = "intercepted"
  /\ call' = [call EXCEPT !.pc = "sent", !.sent = <<call.req>>,
                          !.pipeline = <<"http.request">>,
                          !.log = Append(@, "http.request")]
  /\ UNCHANGED declared

\* The test of line 260 inverted.
IsJSONInverted == ~Truthy(descriptor.isJSON)

\* Line 260.
IsJSON == Truthy(descriptor.isJSON)

\* Lines 260-262.
MapJson ==
  /\ call.pc = "sent"
  /\ IsJSON
  /\ call' = [call EXCEPT !.pc = "mapped", !.pipeline = Append(@, "json"),
                          !.log = Append(@, "json")]
  /\ UNCHANGED declared

\* Lines 265-267: the default returns res; an override may add to the pipeline.
ResponseInterceptor(added) ==
  /\ \/ call.pc = "mapped"
     \/ call.pc = "sent" /\ ~IsJSON
  /\ call' = [call EXCEPT !.pc = "returning", !.returned = call.pipeline \o added,
                          !.pipeline = call.pipeline \o added,
                          !.log = Append(@, "responseInterceptor")]
  /\ UNCHANGED declared

\* Line 267: the caller has the observable.
Return ==
  /\ call.pc = "returning"
  /\ call' = NoCall
  /\ UNCHANGED declared

\* A throw reaches the caller.
Propagate ==
  /\ call.pc = "failed"
  /\ call' = NoCall
  /\ UNCHANGED declared

Next ==
  \/ \E url \in BaseUrls : BaseUrl(url)
  \/ \E h \in DefaultHeaderDefs : DefaultHeaders(h)
  \/ \E role \in Roles : \E key \in Keys(role) : \E i \in 0..MaxIndex :
       ParamDecorator(role, key, i)
  \/ \E h \in HeaderDefs : Headers(h)
  \/ \E m \in MediaTypes : Produces(m)
  \/ \E m \in Verbs : \E url \in Templates : MethodDecorator(m, url)
  \/ \E args \in ArgLists : StartCall(args)
  \/ \E outcome \in {"return", "mutate", "throw"} : RequestInterceptor(outcome)
  \/ HttpRequest
  \/ MapJson
  \/ \E added \in {<<>>, <<"tap">>} : ResponseInterceptor(added)
  \/ Return
  \/ Propagate

Spec == Init /\ [][Next]_vars

\* ------------------------------------------------------------ the properties

\* The bindings of a role the closure uses at a call, and those declared.
HeldList(role) == IF descriptor.value.held[role] THEN params[role].list ELSE <<>>

DeclaredList(role) == params[role].list

Compiled == call.pc = "compiled"

IsPrefix(a, b) == Len(a) <= Len(b) /\ SubSeq(b, 1, Len(a)) = a

HasParam(search, k) == \E i \in 1..Len(search) : search[i].param = k

ParamOf(search, k) == (CHOOSE i \in 1..Len(search) : search[i].param = k)

\* The last entry of a header definition or binding list that names `name`.
LastIndex(S) == CHOOSE i \in S : \A j \in S : j <= i

\* The value the layers give a header name, the highest layer first: the Header
\* bindings, then the method's @Headers, then the client's @DefaultHeaders.
LayerValue(name) ==
  LET bound == {i \in 1..Len(HeldList("Header")) :
                  ToLowerCase(HeldList("Header")[i].key) = name}
      static == {i \in 1..Len(descriptor.headers.list) :
                   ToLowerCase(descriptor.headers.list[i].name) = name}
      defaults == {i \in 1..Len(getDefaultHeaders.list) :
                     ToLowerCase(getDefaultHeaders.list[i].name) = name}
  IN  IF bound # {}
      THEN ArgAt(call.args, HeldList("Header")[LastIndex(bound)].parameterIndex)
      ELSE IF static # {} THEN descriptor.headers.list[LastIndex(static)].value
      ELSE getDefaultHeaders.list[LastIndex(defaults)].value

\* C1: the compiled headers hold exactly one value per key, the value of the
\* highest layer (defaults, then the method's headers, then the Header bindings)
\* that defines the key.
C1_HeaderMergeOverrides ==
  Compiled =>
    \A i \in 1..Len(call.req.headers) :
      call.req.headers[i].values = <<LayerValue(call.req.headers[i].name)>>

\* C2: for every Query binding (key k, position p): a falsy args[p] leaves k out
\* of the query map; a truthy args[p] puts k in it, with the percent-encoding of
\* its JSON text when it is an object and of its string form otherwise.
C2_QueryPolicy ==
  Compiled =>
    \A i \in 1..Len(DeclaredList("Query")) :
      LET b == DeclaredList("Query")[i]
          v == ArgAt(call.args, b.parameterIndex)
          k == EncodeURIComponent(b.key)
          text == IF InstanceOfObject(v) THEN JSONStringify(v).v.s ELSE ToString(v)
      IN  IF Truthy(v)
          THEN /\ HasParam(call.req.search, k)
               /\ call.req.search[ParamOf(call.req.search, k)].val = EncodeURIComponent(text)
          ELSE ~HasParam(call.req.search, k)

ExpectedStages ==
  <<"compile", "requestInterceptor", "http.request">>
  \o (IF Truthy(descriptor.isJSON) THEN <<"json">> ELSE <<>>)
  \o <<"responseInterceptor">>

\* C3: a call runs compile, requestInterceptor, http.request, the json map if and
\* only if isJSON is set, and responseInterceptor, once each and in this order,
\* and returns what responseInterceptor returned.
C3_StageOrder ==
  call.pc # "idle" =>
    /\ IsPrefix(call.log, ExpectedStages)
    /\ call.pc = "returning" =>
         /\ call.log = ExpectedStages
         /\ call.returned = call.pipeline
         /\ Head(call.pipeline) = "http.request"
         /\ Truthy(descriptor.isJSON) <=>
              (\E i \in 1..Len(call.pipeline) : call.pipeline[i] = "json")

C3_ReturnedThroughJson ==
  /\ call.pc = "returning"
  /\ Truthy(descriptor.isJSON)
  /\ call.log = <<"compile", "requestInterceptor", "http.request", "json",
                  "responseInterceptor">>

\* C4: a call whose compile step or requestInterceptor threw ends with the error
\* and nothing was handed to http.request; no request is sent whose compilation
\* did not complete.
C4_NoSendAfterFailure ==
  /\ call.compiled.threw => call.pc = "failed"
  /\ call.pc = "failed" => call.sent = <<>> /\ call.pipeline = <<>>
  /\ call.sent # <<>> =>
       /\ ~call.compiled.threw
       /\ call.sent = <<call.req>>
       /\ IsPrefix(<<"compile", "requestInterceptor", "http.request">>, call.log)

C4_CompileFailed == call.pc = "failed" /\ call.compiled.threw

\* C5: with no base URL the compiled URL is the resolved path alone, and with no
\* default headers the header merge starts from an empty mapping.
C5_AbsentBaseConfigNeutral ==
  Compiled =>
    /\ getBaseUrl = Null =>
         call.req.url = CompilePath(descriptor.value.url, Closure.pPath, call.args)
    /\ getDefaultHeaders.absent =>
         call.req.headers =
           CompileHeaders(Present(<<>>), descriptor.headers, Closure.pHeader, call.args)

\* null and undefined are both "no body".
NoBody(v) == v \in {Null, Undefined}

\* C6: with no Body binding the body is absent; with Body bindings it is the JSON
\* text of the argument of the binding at index 0 of the Body list.
C6_BodyResolution ==
  Compiled =>
    IF DeclaredList("Body") = <<>> THEN call.req.body = Null
    ELSE LET json == JSONStringify(ArgAt(call.args, DeclaredList("Body")[1].parameterIndex)).v
         IN  call.req.body = json \/ (NoBody(json) /\ NoBody(call.req.body))

Occurrences(str, pat) ==
  {i \in 1..(Len(str) - Len(pat) + 1) : SubSeq(str, i, i + Len(pat) - 1) = pat}

\* Where in the template binding j's placeholder is: the n-th {key}, for the n-th
\* binding of that key; 0 when the template has no such occurrence.
PlaceOf(template, bindings, j) ==
  LET occ == Occurrences(template, <<"{">> \o bindings[j].key \o <<"}">>)
      n == Cardinality({i \in 1..j : bindings[i].key = bindings[j].key})
      nth == {i \in occ : Cardinality({h \in occ : h <= i}) = n}
  IN  IF nth = {} THEN 0 ELSE CHOOSE i \in nth : TRUE

\* The template with each binding's placeholder replaced by its own argument, and
\* nothing else touched.
RECURSIVE OwnArguments(_, _, _, _)
OwnArguments(template, i, bindings, args) ==
  IF i > Len(template) THEN <<>>
  ELSE LET js == {j \in 1..Len(bindings) : PlaceOf(template, bindings, j) = i}
       IN  IF js = {} THEN <<template[i]>> \o OwnArguments(template, i + 1, bindings, args)
           ELSE LET j == CHOOSE j \in js : TRUE
                IN  ToString(ArgAt(args, bindings[j].parameterIndex))
                    \o OwnArguments(template, i + Len(bindings[j].key) + 2, bindings, args)

\* C7: path substitution is not recursive: the resolved path is the template with
\* each {k} replaced by its own argument's string form, and inserted text is never
\* substituted again.
C7_PathNotRecursive ==
  Compiled =>
    call.req.url =
      ToString(getBaseUrl)
      \o OwnArguments(descriptor.value.url, 1, HeldList("Path"), call.args)

\* The closure had it read the bindings at the call instead of at its declaration.
DeclaredClosure ==
  [Closure EXCEPT !.pBody = params["Body"], !.pPath = params["Path"],
                  !.pQuery = params["Query"], !.pHeader = params["Header"]]

\* C8: the order of the declarations does not matter: a call compiles what it
\* would had every binding been declared before the verb decorator.
C8_DeclarationOrderFree ==
  call.pc # "idle" =>
    call.compiled =
      Compile(DeclaredClosure, descriptor.headers, getDefaultHeaders, getBaseUrl, call.args)

\* C9: a call, whatever its requestInterceptor does to the request, leaves the
\* declarations and the default headers as they were, so that compiling the same
\* arguments again at any later point of it gives the same request.
C9_CallsLeaveDeclarations ==
  /\ [][call' # call => declared' = declared]_vars
  /\ [](call.pc # "idle" => call.compiled = CompileNow(call.args))

C9_HookMutatedRequest ==
  /\ call.pc = "returning"
  /\ call.req # call.compiled.req
  /\ call.compiled = CompileNow(call.args)

MissingSlot(role) ==
  \E i \in 1..Len(HeldList(role)) : HeldList(role)[i].parameterIndex >= Len(call.args)

\* C10: a call whose argument list is shorter than a binding's position compiles
\* without error and goes on to requestInterceptor and http.request; the binding
\* contributes undefined.
C10_MissingSlotTolerated ==
  (/\ call.pc # "idle"
   /\ \E role \in Roles : MissingSlot(role)
   /\ \A i \in 1..Len(call.args) : call.args[i] # Circular)
  => /\ ~call.compiled.threw
     /\ call.pc = "failed" => call.log = <<"compile", "requestInterceptor">>
     /\ (HeldList("Body") # <<>> /\ HeldList("Body")[1].parameterIndex >= Len(call.args))
        => call.compiled.req.body = Undefined
     /\ \A i \in 1..Len(HeldList("Header")) :
          HeldList("Header")[i].parameterIndex >= Len(call.args) =>
            \E h \in 1..Len(call.compiled.req.headers) :
              /\ call.compiled.req.headers[h].name = ToLowerCase(HeldList("Header")[i].key)
              /\ \E n \in 1..Len(call.compiled.req.headers[h].values) :
                   call.compiled.req.headers[h].values[n] = Undefined
     /\ (\A i \in 1..Len(HeldList("Query")) :
           HeldList("Query")[i].parameterIndex >= Len(call.args))
        => call.compiled.req.search = <<>>

C10_SentWithMissingSlot ==
  /\ call.pc = "sent"
  /\ \A role \in Roles : MissingSlot(role) \/ HeldList(role) = <<>>
  /\ \E role \in Roles : MissingSlot(role)
====
